---- MODULE Spec2Model ----
(***************************************************************************)
(* Bar-by-bar replay of FiveBar.py: FiveBarStrategy.next and               *)
(* EquityCurveAnalyzer.next driven by cerebro.run() over a bar feed.       *)
(*                                                                         *)
(* FiveBar.py holds the strategy, the analyzer and the calls into the      *)
(* engine (cerebro.run, broker.getvalue, buy/sell/close).  The engine      *)
(* itself (bar loop, broker) is not part of FiveBar.py.  Two things about  *)
(* it are not fixed by FiveBar.py and are kept open here, each chosen once *)
(* per run:                                                                *)
(*   fillPolicy    "SameClose": an order is filled right after the         *)
(*                 strategy call that submitted it, at that bar's close    *)
(*                 (spec.md 4.5, 9);                                       *)
(*                 "NextOpen": it is filled when the next bar arrives,     *)
(*                 at that bar's open, before the strategy runs again      *)
(*                 (spec.md 4.2, "resolved against the next bar's open"). *)
(*   analyzerFirst TRUE: the analyzer runs before the strategy on each bar *)
(*                 (spec.md 4.5); FALSE: after it.                         *)
(***************************************************************************)
EXTENDS Integers, Sequences, FiniteSets, TLC

\* ---------------------------------------------------------------- bounds
MaxBars == 5
MaxLookback == 3
DayLen == 2
Prices == {10, 11}
StartCash == 101

VARIABLES
    bars,           \* the bars delivered so far: <<[dt, close], ...>>
    lookback,       \* params.lookback
    fillPolicy,     \* "SameClose" or "NextOpen"
    analyzerFirst,  \* analyzer.next before strategy.next on each bar
    pc,             \* position of the engine loop
    todo,           \* callbacks still to run on the current bar
    cash,           \* broker cash
    size,           \* broker position size (signed)
    pending,        \* orders submitted and not yet filled
    order,          \* FiveBarStrategy.order
    equity,         \* EquityCurveAnalyzer.equity
    dates,          \* EquityCurveAnalyzer.dates
    last_date,      \* EquityCurveAnalyzer.last_date: <<>> is None, else <<dt>>
    created,        \* the "... CREATE"/"CLOSE POSITION" log lines: [bar, side, price]
    executed,       \* the fills: [bar, side, price, decided]
    run,            \* 1: first run_backtest(); 2: the same feed run again
    first,          \* what the first run read and produced; <<>> during run 1
    invoked         \* how many times FiveBarStrategy.next was called in this run

vars == <<bars, lookback, fillPolicy, analyzerFirst, pc, todo, cash, size,
          pending, order, equity, dates, last_date, created, executed,
          run, first, invoked>>

\* ------------------------------------------------------------ bar feed
\* timestamps count bar intervals; a calendar day is DayLen of them
Date(dt) == dt \div DayLen

\* the next bar comes one interval later, or a day later
Gaps == {1, DayLen}

NBars == Len(bars)

LastDt == IF bars = <<>> THEN -1 ELSE bars[NBars].dt

\* dataclose[-k], k >= 0
dataclose(k) == bars[NBars - k].close

\* ------------------------------------------------------------ broker
getvalue == cash + size * dataclose(0)

\* a mutant of FillCash: a close releases one unit's price whatever the position
FillCashCloseUnit(side, price) ==
    CASE side = "buy"   -> cash - price
      [] side = "sell"  -> cash + price
      [] side = "close" -> cash + price

FillCash(side, price) ==
    CASE side = "buy"   -> cash - price
      [] side = "sell"  -> cash + price
      [] side = "close" -> cash + price * size

FillSize(side) ==
    CASE side = "buy"   -> size + 1
      [] side = "sell"  -> size - 1
      [] side = "close" -> 0

\* ------------------------------------------------------------ engine
Callbacks == IF analyzerFirst THEN <<"analyzer", "strategy">>
                              ELSE <<"strategy", "analyzer">>

\* where the loop goes once the callbacks in rest are what is left of the bar
After(rest) == IF rest = <<>> THEN "feed" ELSE rest[1]

Rest(rest) == IF rest = <<>> THEN rest ELSE Tail(rest)

Init ==
    /\ bars = <<>>
    /\ lookback \in 1..MaxLookback
    /\ fillPolicy \in {"SameClose", "NextOpen"}
    /\ analyzerFirst \in BOOLEAN
    /\ pc = "feed"
    /\ todo = <<>>
    /\ cash = StartCash
    /\ size = 0
    /\ pending = <<>>
    /\ order = "None"
    /\ equity = <<>>
    /\ dates = <<>>
    /\ last_date = <<>>
    /\ created = <<>>
    /\ executed = <<>>
    /\ run = 1
    /\ first = <<>>
    /\ invoked = 0

\* the loop moves to the next bar
Deliver(bar) ==
    /\ pc = "feed"
    /\ bars' = Append(bars, bar)
    /\ pc' = IF pending # <<>> THEN "broker" ELSE Callbacks[1]
    /\ todo' = IF pending # <<>> THEN Callbacks ELSE Tail(Callbacks)
    /\ UNCHANGED <<lookback, fillPolicy, analyzerFirst, cash, size, pending,
                   order, equity, dates, last_date, created, executed,
                   run, first, invoked>>

\* the feed delivers a bar: any close, a later timestamp than the last one
Advance ==
    /\ run = 1
    /\ NBars < MaxBars
    /\ \E gap \in Gaps, c \in Prices :
          Deliver([dt |-> LastDt + gap, close |-> c])

\* the opens the new bar can have: any, or on a second run the one it had
Opens ==
    IF run = 2 /\ \E i \in 1..Len(first.executed) : first.executed[i].bar = NBars
    THEN {first.executed[i].price : i \in {j \in 1..Len(first.executed) :
                                                first.executed[j].bar = NBars}}
    ELSE Prices

\* an order left from the previous bar is filled at the new bar's open
BrokerNext ==
    /\ pc = "broker"
    /\ \E open \in Opens :
          /\ cash' = FillCash(Head(pending), open)
          /\ executed' = Append(executed, [bar |-> NBars, side |-> Head(pending),
                                           price |-> open, decided |-> NBars - 1])
    /\ size' = FillSize(Head(pending))
    /\ pending' = Tail(pending)
    /\ pc' = IF Tail(pending) # <<>> THEN "broker" ELSE After(todo)
    /\ todo' = IF Tail(pending) # <<>> THEN todo ELSE Rest(todo)
    /\ UNCHANGED <<bars, lookback, fillPolicy, analyzerFirst, order, equity,
                   dates, last_date, created, run, first, invoked>>

\* an order is filled at the close of the bar it was submitted on
FillSameBar ==
    /\ pc = "fill"
    /\ cash' = FillCash(Head(pending), dataclose(0))
    /\ size' = FillSize(Head(pending))
    /\ executed' = Append(executed, [bar |-> NBars, side |-> Head(pending),
                                     price |-> dataclose(0), decided |-> NBars])
    /\ pending' = Tail(pending)
    /\ pc' = IF Tail(pending) # <<>> THEN "fill" ELSE After(todo)
    /\ todo' = IF Tail(pending) # <<>> THEN todo ELSE Rest(todo)
    /\ UNCHANGED <<bars, lookback, fillPolicy, analyzerFirst, order, equity,
                   dates, last_date, created, run, first, invoked>>

\* ---------------------------------------------------------- analyzer
\* a mutant of NewDay: the datetimes are compared, not their dates
NewDayNoDate(dt) == last_date = <<>> \/ dt # last_date[1]

\* the bar at dt is the first one seen of its calendar date
NewDay(dt) == last_date = <<>> \/ Date(dt) # Date(last_date[1])

\* a mutant of AnalyzerNext: the sample is the broker's cash, not its value
AnalyzerNextCash ==
    /\ pc = "analyzer"
    /\ LET dt == bars[NBars].dt IN
       IF NewDay(dt)
       THEN /\ equity' = Append(equity, cash)
            /\ dates' = Append(dates, dt)
            /\ last_date' = <<dt>>
       ELSE UNCHANGED <<equity, dates, last_date>>
    /\ pc' = After(todo)
    /\ todo' = Rest(todo)
    /\ UNCHANGED <<bars, lookback, fillPolicy, analyzerFirst, cash, size,
                   pending, order, created, executed, run, first, invoked>>

\* a mutant of AnalyzerNext: later bars of a day overwrite the day's sample
AnalyzerNextOverwrite ==
    /\ pc = "analyzer"
    /\ LET dt == bars[NBars].dt IN
       IF NewDay(dt)
       THEN /\ equity' = Append(equity, getvalue)
            /\ dates' = Append(dates, dt)
            /\ last_date' = <<dt>>
       ELSE /\ equity' = [equity EXCEPT ![Len(equity)] = getvalue]
            /\ UNCHANGED <<dates, last_date>>
    /\ pc' = After(todo)
    /\ todo' = Rest(todo)
    /\ UNCHANGED <<bars, lookback, fillPolicy, analyzerFirst, cash, size,
                   pending, order, created, executed, run, first, invoked>>

\* a mutant of AnalyzerNext: taking a sample settles the position into cash
AnalyzerNextSettle ==
    /\ pc = "analyzer"
    /\ LET dt == bars[NBars].dt IN
       IF NewDay(dt)
       THEN /\ equity' = Append(equity, getvalue)
            /\ dates' = Append(dates, dt)
            /\ last_date' = <<dt>>
            /\ cash' = getvalue
            /\ size' = 0
       ELSE UNCHANGED <<equity, dates, last_date, cash, size>>
    /\ pc' = After(todo)
    /\ todo' = Rest(todo)
    /\ UNCHANGED <<bars, lookback, fillPolicy, analyzerFirst,
                   pending, order, created, executed, run, first, invoked>>

AnalyzerNext ==
    /\ pc = "analyzer"
    /\ LET dt == bars[NBars].dt IN
       IF NewDay(dt)
       THEN /\ equity' = Append(equity, getvalue)
            /\ dates' = Append(dates, dt)
            /\ last_date' = <<dt>>
       ELSE UNCHANGED <<equity, dates, last_date>>
    /\ pc' = After(todo)
    /\ todo' = Rest(todo)
    /\ UNCHANGED <<bars, lookback, fillPolicy, analyzerFirst, cash, size,
                   pending, order, created, executed, run, first, invoked>>

\* ---------------------------------------------------------- strategy
\* a mutant of Reads: the closes are read before the length is checked
ReadsNoGuard == {0, lookback}

\* the offsets k of the closes dataclose[-k] that FiveBarStrategy.next reads
Reads == IF NBars <= lookback THEN {} ELSE {0, lookback}

\* a read before the first bar raises
Raises == \E k \in Reads : k >= NBars

diff == dataclose(0) - dataclose(lookback)

\* a mutant of Decision: a flat position buys on diff >= 0
DecisionGE ==
    IF NBars <= lookback THEN <<>>
    ELSE IF size = 0
         THEN IF diff >= 0 THEN <<"buy">>
              ELSE IF diff < 0 THEN <<"sell">>
              ELSE <<>>
         ELSE IF (size > 0 /\ diff < 0) \/ (size < 0 /\ diff > 0)
              THEN <<"close">>
              ELSE <<>>

\* a mutant of Decision: a flat position sells on diff <= 0
DecisionLE ==
    IF NBars <= lookback THEN <<>>
    ELSE IF size = 0
         THEN IF diff > 0 THEN <<"buy">>
              ELSE IF diff <= 0 THEN <<"sell">>
              ELSE <<>>
         ELSE IF (size > 0 /\ diff < 0) \/ (size < 0 /\ diff > 0)
              THEN <<"close">>
              ELSE <<>>

\* a mutant of Decision: an open position is closed on diff < 0 whatever its sign
DecisionCloseAny ==
    IF NBars <= lookback THEN <<>>
    ELSE IF size = 0
         THEN IF diff > 0 THEN <<"buy">>
              ELSE IF diff < 0 THEN <<"sell">>
              ELSE <<>>
         ELSE IF (size > 0 /\ diff < 0) \/ (size < 0 /\ diff < 0)
              THEN <<"close">>
              ELSE <<>>

\* a mutant of Decision: the lookback is taken one bar short
DecisionOffByOne ==
    IF NBars <= lookback - 1 THEN <<>>
    ELSE LET d == dataclose(0) - dataclose(lookback - 1) IN
         IF size = 0
         THEN IF d > 0 THEN <<"buy">>
              ELSE IF d < 0 THEN <<"sell">>
              ELSE <<>>
         ELSE IF (size > 0 /\ d < 0) \/ (size < 0 /\ d > 0)
              THEN <<"close">>
              ELSE <<>>

\* a mutant of Decision: an open position is reversed in one call
DecisionFlip ==
    IF NBars <= lookback THEN <<>>
    ELSE IF size = 0
         THEN IF diff > 0 THEN <<"buy">>
              ELSE IF diff < 0 THEN <<"sell">>
              ELSE <<>>
         ELSE IF size > 0 /\ diff < 0 THEN <<"close", "sell">>
              ELSE IF size < 0 /\ diff > 0 THEN <<"close", "buy">>
              ELSE <<>>

\* a mutant of Decision: the position is not looked at, every signal trades
DecisionNoPositionCheck ==
    IF NBars <= lookback THEN <<>>
    ELSE IF diff > 0 THEN <<"buy">>
         ELSE IF diff < 0 THEN <<"sell">>
         ELSE <<>>

\* a mutant of Decision: a flat position with no signal asks for a close
DecisionCloseFlat ==
    IF NBars <= lookback THEN <<>>
    ELSE IF size = 0
         THEN IF diff > 0 THEN <<"buy">>
              ELSE IF diff < 0 THEN <<"sell">>
              ELSE <<"close">>
         ELSE IF (size > 0 /\ diff < 0) \/ (size < 0 /\ diff > 0)
              THEN <<"close">>
              ELSE <<>>

\* the orders FiveBarStrategy.next submits on the current bar
Decision ==
    IF NBars <= lookback THEN <<>>
    ELSE IF size = 0
         THEN IF diff > 0 THEN <<"buy">>
              ELSE IF diff < 0 THEN <<"sell">>
              ELSE <<>>
         ELSE IF (size > 0 /\ diff < 0) \/ (size < 0 /\ diff > 0)
              THEN <<"close">>
              ELSE <<>>

StrategyNext ==
    /\ pc = "strategy"
    /\ invoked' = invoked + 1
    /\ IF Raises
       THEN \* the exception leaves next() and halts the run
            /\ pc' = "raised"
            /\ UNCHANGED <<pending, created, order, todo>>
       ELSE /\ pending' = pending \o Decision
            /\ created' = created \o
                  [i \in 1..Len(Decision) |->
                      [bar |-> NBars, side |-> Decision[i], price |-> dataclose(0)]]
            /\ order' = IF Decision # <<>> /\ Decision[1] \in {"buy", "sell"}
                        THEN Decision[1] ELSE order
            /\ IF fillPolicy = "SameClose" /\ pending' # <<>>
               THEN pc' = "fill" /\ todo' = todo
               ELSE pc' = After(todo) /\ todo' = Rest(todo)
    /\ UNCHANGED <<bars, lookback, fillPolicy, analyzerFirst, cash, size,
                   equity, dates, last_date, executed, run, first>>

\* a mutant of Finish: the run returns before the last bar's callbacks ran
FinishEarly ==
    /\ pc \in {"feed", "strategy", "analyzer"}
    /\ NBars >= 1
    /\ run = 2 => NBars = Len(first.bars)
    /\ pc' = "done"
    /\ UNCHANGED <<bars, lookback, fillPolicy, analyzerFirst, todo, cash, size,
                   pending, order, equity, dates, last_date, created, executed,
                   run, first, invoked>>

\* the feed is exhausted: cerebro.run() returns
Finish ==
    /\ pc = "feed"
    /\ NBars >= 1
    /\ run = 2 => NBars = Len(first.bars)
    /\ pc' = "done"
    /\ UNCHANGED <<bars, lookback, fillPolicy, analyzerFirst, todo, cash, size,
                   pending, order, equity, dates, last_date, created, executed,
                   run, first, invoked>>

Next ==
    \/ Advance
    \/ BrokerNext
    \/ AnalyzerNext
    \/ StrategyNext
    \/ FillSameBar
    \/ Finish

Spec == Init /\ [][Next]_vars

\* the loop is a single thread that always takes its next step
SpecLive == Spec /\ WF_vars(Next)

\* ------------------------------------------------- a second run_backtest()
\* a mutant of Replay: the analyzer's lists outlive the run
ReplayShared ==
    /\ pc = "done"
    /\ run = 1
    /\ first' = [bars |-> bars, created |-> created, executed |-> executed,
                 equity |-> equity, dates |-> dates, value |-> getvalue,
                 cash |-> cash, size |-> size]
    /\ run' = 2
    /\ bars' = <<>>
    /\ pc' = "feed"
    /\ todo' = <<>>
    /\ cash' = StartCash
    /\ size' = 0
    /\ pending' = <<>>
    /\ order' = "None"
    /\ created' = <<>>
    /\ executed' = <<>>
    /\ invoked' = 0
    /\ UNCHANGED <<lookback, fillPolicy, analyzerFirst, equity, dates, last_date>>

\* run_backtest() again: a new Cerebro, strategy, analyzer and broker
Replay ==
    /\ pc = "done"
    /\ run = 1
    /\ first' = [bars |-> bars, created |-> created, executed |-> executed,
                 equity |-> equity, dates |-> dates, value |-> getvalue,
                 cash |-> cash, size |-> size]
    /\ run' = 2
    /\ bars' = <<>>
    /\ pc' = "feed"
    /\ todo' = <<>>
    /\ cash' = StartCash
    /\ size' = 0
    /\ pending' = <<>>
    /\ order' = "None"
    /\ equity' = <<>>
    /\ dates' = <<>>
    /\ last_date' = <<>>
    /\ created' = <<>>
    /\ executed' = <<>>
    /\ invoked' = 0
    /\ UNCHANGED <<lookback, fillPolicy, analyzerFirst>>

\* the second run reads the bars the first run read
Redeliver ==
    /\ run = 2
    /\ NBars < Len(first.bars)
    /\ Deliver(first.bars[NBars + 1])

NextReplay ==
    \/ Next
    \/ Replay
    \/ Redeliver

SpecReplay == Init /\ [][NextReplay]_vars

\* ======================================================== properties
\* the orders the step under way adds to the broker's queue
Submitted == SubSeq(pending', Len(pending) + 1, Len(pending'))

\* the calendar dates present in the bars delivered
BarDates == {Date(bars[i].dt) : i \in 1..NBars}

\* the timestamp of the first bar of calendar date d
FirstDt(d) ==
    LET ts == {bars[i].dt : i \in {j \in 1..NBars : Date(bars[j].dt) = d}}
    IN CHOOSE t \in ts : \A u \in ts : t <= u

ConstantCloses == \A i, j \in 1..NBars : bars[i].close = bars[j].close

\* C2: every equity sample the analyzer records is cash + position size x
\* the close of the last bar delivered, computed from the broker's cash and
\* position as they are when the sample is taken; earlier samples are kept.
C2_SampleIsCashPlusPosition ==
    [][Len(equity') > Len(equity) =>
          /\ equity' = Append(equity, cash' + size' * bars'[Len(bars')].close)
          /\ cash' = cash /\ size' = size /\ bars' = bars]_vars

\* C2 witness: a sample was taken while a position was open
C2_Witness ==
    /\ pc = "feed"
    /\ size # 0
    /\ executed[Len(executed)].bar < NBars
    /\ last_date = <<bars[NBars].dt>>
    /\ equity[Len(equity)] = cash + size * bars[NBars].close
    /\ equity[Len(equity)] # cash

\* C3: a strategy call past the lookback guard with a flat position submits
\* a buy iff diff > 0, a sell iff diff < 0, and nothing when diff = 0.
C3_FlatDecision ==
    [][(pc = "strategy" /\ NBars > lookback /\ size = 0) =>
          LET d == bars[NBars].close - bars[NBars - lookback].close IN
          /\ d > 0 <=> Submitted = <<"buy">>
          /\ d < 0 <=> Submitted = <<"sell">>
          /\ d = 0 <=> Submitted = <<>>]_vars

\* C3 witness: a sell was submitted from flat, and a flat call past the
\* guard submitted nothing
C3_Witness ==
    /\ \E i \in 1..Len(created) : created[i].side = "sell"
    /\ size = 0
    /\ NBars > lookback
    /\ pc = "feed"
    /\ created[Len(created)].bar < NBars
    /\ executed # <<>> /\ executed[Len(executed)].bar < NBars

\* C4: a strategy call with an open position submits a close iff the
\* position is long and diff < 0 or short and diff > 0; otherwise it submits
\* nothing; it never submits a buy or a sell.
C4_InPositionDecision ==
    [][(pc = "strategy" /\ size # 0) =>
          /\ NBars > lookback
          /\ LET d == bars[NBars].close - bars[NBars - lookback].close IN
             Submitted = IF (size > 0 /\ d < 0) \/ (size < 0 /\ d > 0)
                         THEN <<"close">> ELSE <<>>]_vars

\* C4 witness: a short position was held on a call with diff < 0, and closed
\* by a later call
C4_Witness ==
    /\ Len(created) >= 2
    /\ created[Len(created) - 1].side = "sell"
    /\ created[Len(created)].side = "close"
    /\ created[Len(created)].bar > created[Len(created) - 1].bar + 2

\* C5: while fewer than lookback+1 bars have been delivered no order has
\* been submitted or filled, the position is flat and cash is the starting
\* cash.
C5_NoOrderBeforeLookback ==
    NBars <= lookback =>
        /\ created = <<>>
        /\ pending = <<>>
        /\ executed = <<>>
        /\ size = 0
        /\ cash = StartCash

\* C5 witness: a run over exactly lookback bars with a price move ended
C5_Witness ==
    /\ pc = "done"
    /\ NBars = lookback
    /\ bars[1].close # bars[NBars].close

\* C6: at the end of the run there is exactly one sample per calendar date
\* present in the bars, stamped with the first bar of that date.
C6_OneSamplePerDate ==
    pc = "done" =>
        /\ Len(dates) = Cardinality(BarDates)
        /\ Len(equity) = Len(dates)
        /\ \A d \in BarDates : \E k \in 1..Len(dates) : dates[k] = FirstDt(d)
        /\ \A k \in 1..Len(dates) : dates[k] = FirstDt(Date(dates[k]))

\* C6 witness: a finished run with several dates, one of them with two bars
C6_Witness ==
    /\ pc = "done"
    /\ Len(dates) >= 2
    /\ \E i \in 1..NBars - 1 : Date(bars[i].dt) = Date(bars[i + 1].dt)

\* C8: at most one order is pending at any time, and none is pending when
\* the strategy is called.
C8_OnePendingOrder ==
    /\ Len(pending) <= 1
    /\ pc = "strategy" => pending = <<>>

\* C8 witness: the strategy is called again after an order of an earlier
\* bar was filled
C8_Witness ==
    /\ pc = "strategy"
    /\ executed # <<>>
    /\ created[Len(created)].bar < NBars

\* C9: when every close delivered is the same, no order is ever submitted
\* or filled and the final portfolio value is the starting cash.
C9_ConstantCloses ==
    ConstantCloses =>
        /\ created = <<>>
        /\ pending = <<>>
        /\ executed = <<>>
        /\ pc = "done" => cash + size * bars[NBars].close = StartCash

\* C9 witness: a run over constant closes, longer than the lookback, ended
C9_Witness ==
    /\ pc = "done"
    /\ NBars > lookback
    /\ ConstantCloses

\* C10: a second run over the same bars, with the same lookback and starting
\* cash, ends with the same orders, fills, samples and final value as the
\* first one.
C10_Determinism ==
    (run = 2 /\ pc = "done") =>
        /\ bars = first.bars
        /\ created = first.created
        /\ executed = first.executed
        /\ equity = first.equity
        /\ dates = first.dates
        /\ cash = first.cash
        /\ size = first.size
        /\ cash + size * bars[NBars].close = first.value

\* C10 witness: a second run ended, with fills and several samples
C10_Witness ==
    /\ run = 2
    /\ pc = "done"
    /\ Len(executed) >= 2
    /\ Len(equity) >= 2

IsPrefix(a, b) == Len(a) <= Len(b) /\ SubSeq(b, 1, Len(a)) = a

\* C12: within a run every step leaves the samples taken so far in place:
\* equity and dates only grow at the end, together; so the samples after any
\* number of bars are the first samples of the run carried on.
C12_AppendOnly ==
    [][run' = run =>
          /\ IsPrefix(equity, equity')
          /\ IsPrefix(dates, dates')
          /\ Len(equity') = Len(dates')]_vars

\* C12 witness: bars of an already sampled day went by with a position open
\* and a changed close, and a later day was sampled
C12_Witness ==
    /\ Len(equity) >= 2
    /\ \E i \in 2..NBars - 1 :
          /\ Date(bars[i].dt) = Date(bars[i - 1].dt)
          /\ bars[i].close # bars[i - 1].close
          /\ \E j \in 1..Len(executed) : executed[j].bar < i
          /\ \E k \in 1..Len(dates) : dates[k] > bars[i].dt

\* C13: every fill changes cash by -price x (change of position): a buy
\* takes a flat position to +1 and cash down by the price, a sell takes it to
\* -1 and cash up by the price, a close takes the position to 0 and cash up
\* by price x (size before the close).
C13_FillCash ==
    [][Len(executed') > Len(executed) =>
          LET f == executed'[Len(executed')] IN
          /\ Len(executed') = Len(executed) + 1
          /\ cash' - cash = -(f.price * (size' - size))
          /\ f.side = "buy" => (size = 0 /\ size' = 1 /\ cash' = cash - f.price)
          /\ f.side = "sell" => (size = 0 /\ size' = -1 /\ cash' = cash + f.price)
          /\ f.side = "close" => (size # 0 /\ size' = 0
                                  /\ cash' = cash + f.price * size)]_vars

\* C13 witness: a short position was opened and closed, and a long one opened
C13_Witness ==
    /\ Len(executed) >= 3
    /\ \E i \in 1..Len(executed) - 1 :
          executed[i].side = "sell" /\ executed[i + 1].side = "close"
    /\ \E i \in 1..Len(executed) : executed[i].side = "buy"

C15_AbstainsWithoutRaising ==
    [][pc = "strategy" =>
          /\ pc' # "raised"
          /\ NBars <= lookback =>
                (Submitted = <<>> /\ pc' \in {"analyzer", "feed"} /\ bars' = bars)]_vars

\* C15 witness: the strategy was called on each of exactly lookback bars and
\* the loop is ready for the next bar
C15_Witness ==
    /\ pc = "feed"
    /\ lookback >= 2
    /\ NBars = lookback
    /\ invoked = NBars
    /\ NBars < MaxBars

\* C16: the run ends; bars are delivered one at a time, each later than the
\* one before, none taken back; and when the run has ended the strategy has
\* been called once per bar.
C16_Terminates ==
    /\ <>(pc = "done")
    /\ [](pc = "done" =>
            /\ invoked = NBars
            /\ \A i \in 1..NBars - 1 : bars[i].dt < bars[i + 1].dt)
    /\ [][(bars' # bars /\ run' = run) =>
             /\ pc = "feed"
             /\ Len(bars') = NBars + 1
             /\ SubSeq(bars', 1, NBars) = bars
             /\ bars'[NBars + 1].dt > LastDt]_vars

\* C16 witness: a run over several bars, with fills, has ended
C16_Witness ==
    /\ pc = "done"
    /\ NBars >= 4
    /\ invoked = NBars
    /\ Len(executed) >= 2

\* C18: the position size is -1, 0 or +1; it never changes between two
\* non-zero values; and a buy or sell is only submitted by a strategy call
\* that finds the position flat with nothing pending.
C18_UnitPosition ==
    /\ [](size \in {-1, 0, 1})
    /\ [][size' # size => (size = 0 \/ size' = 0)]_vars
    /\ [][(pc = "strategy" /\ \E i \in 1..Len(Submitted) :
                                  Submitted[i] \in {"buy", "sell"}) =>
             (size = 0 /\ pending = <<>>)]_vars

\* C18 witness: the position has been long, then flat, then short
C18_Witness ==
    /\ size = -1
    /\ \E i \in 1..Len(executed) - 2 :
          /\ executed[i].side = "buy"
          /\ executed[i + 1].side = "close"
          /\ executed[i + 2].side = "sell"

\* C19: the strategy submits a close only with a position open, and a close
\* is only ever filled against an open position.
C19_NoCloseWhenFlat ==
    [][/\ (pc = "strategy" /\ \E i \in 1..Len(Submitted) : Submitted[i] = "close")
             => size # 0
       /\ (Len(executed') > Len(executed)
           /\ executed'[Len(executed')].side = "close") => size # 0]_vars

\* C19 witness: a close was filled after a flat call with diff = 0 went by
C19_Witness ==
    /\ executed # <<>>
    /\ executed[Len(executed)].side = "close"
    /\ size = 0
    /\ \E n \in (lookback + 1)..NBars :
          /\ bars[n].close = bars[n - lookback].close
          /\ \A j \in 1..Len(executed) : executed[j].bar > n

====
